---------------------------- MODULE Spec2Model ----------------------------
(***************************************************************************)
(* A model of cbzmerge.py: merge_cbz_files and its helpers.                *)
(*                                                                         *)
(* File names are sequences of one-character strings, so that the regular  *)
(* expression of is_double_page, os.path.splitext, str.lower, str.endswith *)
(* and the code-point order used by sorted() are computed, not assumed.    *)
(* The content of a file is the pair <<archive file name, member name>> it *)
(* was extracted from.  The temporary directory is a map from the names of *)
(* its subdirectories to their files.                                      *)
(***************************************************************************)
EXTENDS Integers, Sequences, FiniteSets, TLC

VARIABLES
    input,            \* inputdir: file name -> [valid, members]
    is_pdf,           \* the is_pdf argument
    pc,               \* position in merge_cbz_files
    tempExists,       \* tempdir exists on disk
    dirs,             \* tempdir: subdirectory name -> (file name -> content)
    cbz_files,        \* sorted list of the .cbz files
    cbz_iter,         \* part of cbz_files the unpacking loop has not visited
    subdirs,          \* subdirectories returned by unpack_cbz
    subdirs_iter,     \* part of subdirs the renumbering loop has not visited
    subdir,           \* loop variable of the renumbering loop
    image_files,      \* part of the sorted page list not yet copied
    page_counter,     \* 0 while unassigned
    files_to_export,  \* paths <<directory, file name>> under tempdir
    zip_iter,         \* part of files_to_export not yet written to the zip
    output,           \* file at output_file: [exists, open, entries]
    failure           \* the exception that ended the run, or "none"

vars == <<input, is_pdf, pc, tempExists, dirs, cbz_files, cbz_iter, subdirs,
          subdirs_iter, subdir, image_files, page_counter, files_to_export,
          zip_iter, output, failure>>

-----------------------------------------------------------------------------
(* Characters and strings *)

\* Code points of the characters that occur in the modelled names.
Ord ==
    ("-" :> 45) @@ ("." :> 46) @@
    ("0" :> 48) @@ ("1" :> 49) @@ ("2" :> 50) @@ ("3" :> 51) @@ ("4" :> 52) @@
    ("5" :> 53) @@ ("6" :> 54) @@ ("7" :> 55) @@ ("8" :> 56) @@ ("9" :> 57) @@
    ("G" :> 71) @@ ("J" :> 74) @@ ("P" :> 80) @@
    ("a" :> 97) @@ ("b" :> 98) @@ ("c" :> 99) @@ ("d" :> 100) @@ ("e" :> 101) @@
    ("f" :> 102) @@ ("g" :> 103) @@ ("i" :> 105) @@ ("j" :> 106) @@
    ("l" :> 108) @@ ("m" :> 109) @@ ("n" :> 110) @@ ("o" :> 111) @@
    ("p" :> 112) @@ ("r" :> 114) @@ ("s" :> 115) @@ ("t" :> 116) @@
    ("v" :> 118) @@ ("x" :> 120) @@ ("z" :> 122)

Chr(n) == CHOOSE c \in DOMAIN Ord : Ord[c] = n

IsDigit(c) == Ord[c] \in 48..57

\* str.lower on one character
Lower(c) == IF Ord[c] \in 65..90 THEN Chr(Ord[c] + 32) ELSE c

LowerStr(s) == [i \in 1..Len(s) |-> Lower(s[i])]

EndsWith(s, suffix) ==
    /\ Len(s) >= Len(suffix)
    /\ SubSeq(s, Len(s) - Len(suffix) + 1, Len(s)) = suffix

\* s < t in the order Python compares str: code point by code point
RECURSIVE LexLess(_, _)
LexLess(s, t) ==
    IF s = <<>> THEN t # <<>>
    ELSE IF t = <<>> THEN FALSE
    ELSE IF s[1] = t[1] THEN LexLess(Tail(s), Tail(t))
    ELSE Ord[s[1]] < Ord[t[1]]

\* sorted() of a list of distinct names; the result does not depend on the
\* order os.listdir returned them in
RECURSIVE Sorted(_)
Sorted(S) ==
    IF S = {} THEN <<>>
    ELSE LET m == CHOOSE x \in S : \A y \in S \ {x} : LexLess(x, y)
         IN  <<m>> \o Sorted(S \ {m})

\* os.path.splitext of a name without directory separators: split at the
\* last dot unless only dots precede it
splitext(p) ==
    LET dots == {i \in 1..Len(p) : p[i] = "."}
    IN  IF dots = {} THEN <<p, <<>>>>
        ELSE LET d == CHOOSE i \in dots : \A j \in dots : j <= i
             IN  IF \E j \in 1..(d - 1) : p[j] # "."
                 THEN <<SubSeq(p, 1, d - 1), SubSeq(p, d, Len(p))>>
                 ELSE <<p, <<>>>>

\* decimal digits of n >= 0
RECURSIVE Digits(_)
Digits(n) ==
    IF n < 10 THEN <<Chr(48 + n)>>
    ELSE Digits(n \div 10) \o <<Chr(48 + (n % 10))>>

\* the format specification :d, without the zero padding
Fmt02_NoPad(n) == Digits(n)

\* the format specification :02d
Fmt02(n) == IF n < 10 THEN <<"0">> \o Digits(n) ELSE Digits(n)

-----------------------------------------------------------------------------
(* Names *)

ExtCbz  == <<".", "c", "b", "z">>
ExtJpg  == <<".", "j", "p", "g">>
ExtJpeg == <<".", "j", "p", "e", "g">>
ExtPng  == <<".", "p", "n", "g">>
ExtGif  == <<".", "g", "i", "f">>

MergeDirName == <<"m", "e", "r", "g", "e", "d", "i", "r">>

\* archive and other files of the input directory
A_cbz        == <<"a", ".", "c", "b", "z">>
Mergedir_cbz == <<"m", "e", "r", "g", "e", "d", "i", "r", ".", "c", "b", "z">>
Vol1_cbz     == <<"v", "o", "l", "1", ".", "c", "b", "z">>
Vol2_cbz     == <<"v", "o", "l", "2", ".", "c", "b", "z">>
Notes_txt    == <<"n", "o", "t", "e", "s", ".", "t", "x", "t">>

\* page and other members of the archives
P_01_jpg       == <<"0", "1", ".", "j", "p", "g">>
P_02_jpg       == <<"0", "2", ".", "j", "p", "g">>
P_18_19_jpg    == <<"1", "8", "-", "1", "9", ".", "j", "p", "g">>
P_19_18_jpg    == <<"1", "9", "-", "1", "8", ".", "j", "p", "g">>
P_18_19_png    == <<"1", "8", "-", "1", "9", ".", "p", "n", "g">>
P_18_19_jpeg   == <<"1", "8", "-", "1", "9", ".", "j", "p", "e", "g">>
P_18_19_gif    == <<"1", "8", "-", "1", "9", ".", "g", "i", "f">>
P_18_19_JPG    == <<"1", "8", "-", "1", "9", ".", "J", "P", "G">>
P_1_2_jpg      == <<"1", "-", "2", ".", "j", "p", "g">>
P_12345_12_jpg == <<"1", "2", "3", "4", "5", "-", "1", "2", ".", "j", "p", "g">>
Info_xml       == <<"i", "n", "f", "o", ".", "x", "m", "l">>

-----------------------------------------------------------------------------
(* Helpers of merge_cbz_files *)

\* the pattern \d+-\d+\.\w+ instead: any number of digits, any extension
is_double_page_Loose(filename) ==
    \E a \in 1..(Len(filename) - 1), d \in 1..Len(filename) :
        /\ a + 1 < d
        /\ \A i \in 1..a : IsDigit(filename[i])
        /\ filename[a + 1] = "-"
        /\ \A i \in (a + 2)..(d - 1) : IsDigit(filename[i])
        /\ filename[d] = "."
        /\ d < Len(filename)
        /\ \A i \in (d + 1)..Len(filename) : filename[i] \notin {".", "-"}

\* is_double_page: re.match(r'^\d{2,4}-\d{2,4}\.jpg$', filename).  The names of
\* the model hold no line break, so $ matches at the end of the name only.
is_double_page(filename) ==
    \E a \in 2..4, b \in 2..4 :
        /\ Len(filename) = a + 1 + b + Len(ExtJpg)
        /\ \A i \in 1..a : IsDigit(filename[i])
        /\ filename[a + 1] = "-"
        /\ \A i \in (a + 2)..(a + 1 + b) : IsDigit(filename[i])
        /\ SubSeq(filename, a + b + 2, Len(filename)) = ExtJpg

\* f.endswith(".cbz")
IsCbzFile(f) == EndsWith(f, ExtCbz)

\* f.lower().endswith(('.jpg', '.jpeg', '.png', '.gif'))
IsImageFile(f) ==
    \E e \in {ExtJpg, ExtJpeg, ExtPng, ExtGif} : EndsWith(LowerStr(f), e)

\* an unreadable archive is skipped as if it were empty
IsZipFile_Always(cbz_filename) == TRUE

\* zipfile.ZipFile(cbz_path, 'r') accepts the file
IsZipFile(cbz_filename) == input[cbz_filename].valid

\* cbz_subdir, as a name under tempdir
SubdirName(cbz_filename) == splitext(cbz_filename)[1]

EmptyDir == [f \in {} |-> f]

\* os.makedirs(cbz_subdir, exist_ok=True)
MakeDirs(d, name) == IF name \in DOMAIN d THEN d ELSE (name :> EmptyDir) @@ d

\* zip_ref.extractall(cbz_subdir): every member is written under its own
\* name, replacing a file of that name
ExtractAll(d, cbz_filename) ==
    LET sub == SubdirName(cbz_filename)
        new == [m \in input[cbz_filename].members |-> <<cbz_filename, m>>]
    IN  [d EXCEPT ![sub] = new @@ d[sub]]

\* sorted([f for f in os.listdir(subdir) if f.lower().endswith(...)])
ListImages(d, sub) == Sorted({f \in DOMAIN d[sub] : IsImageFile(f)})

\* the second number one too far
DoubleName_HiOff(counter, ext) == Fmt02(counter) \o <<"-">> \o Fmt02(counter + 2) \o ext

\* f"{page_counter:02d}-{page_counter+1:02d}{ext}"
DoubleName(counter, ext) == Fmt02(counter) \o <<"-">> \o Fmt02(counter + 1) \o ext

\* f"{page_counter:02d}{ext}"
SingleName(counter, ext) == Fmt02(counter) \o ext

\* a double page advancing the counter like a single page
NextCounterDouble_One(counter) == counter + 1

\* page_counter += 2
NextCounterDouble(counter) == counter + 2

\* page_counter += 1
NextCounterSingle(counter) == counter + 1

\* shutil.copy(original_page, new_page_path) between files of tempdir
CopyFile(d, src, dst) ==
    [d EXCEPT ![dst[1]] = (dst[2] :> d[src[1]][src[2]]) @@ d[dst[1]]]

\* os.path.basename(file_path)
Basename(path) == path[2]

-----------------------------------------------------------------------------
(* Input directories *)

\* most members of one modelled archive
MaxPages == 2

\* member names of the archives of a directory with several archives
CoreNames == {P_01_jpg, P_02_jpg, P_18_19_jpg, P_19_18_jpg, P_18_19_png, Info_xml}

\* member names of the archive of a directory with one archive
AllNames ==
    CoreNames \cup {P_18_19_jpeg, P_18_19_gif, P_18_19_JPG, P_1_2_jpg, P_12345_12_jpg}

NotAZip == [valid |-> FALSE, members |-> {}]

\* a file that is no ZIP container, or a ZIP container of at most MaxPages members
Archives(names) ==
    {NotAZip} \cup
    {[valid |-> TRUE, members |-> m] : m \in {x \in SUBSET names : Cardinality(x) <= MaxPages}}

\* a file of the directory that is not an archive, or none
Others == {EmptyDir, Notes_txt :> NotAZip}

SeveralArchives ==
    {a @@ o : a \in UNION {[S -> Archives(CoreNames)] : S \in SUBSET {A_cbz, Mergedir_cbz}},
              o \in Others}

OneArchive ==
    {n :> a : n \in {A_cbz, Mergedir_cbz}, a \in Archives(AllNames)}

\* vol1.cbz (01.jpg, 02.jpg, 18-19.jpg) and vol2.cbz (01.jpg, 02.jpg)
ExampleDir ==
    (Vol1_cbz :> [valid |-> TRUE, members |-> {P_01_jpg, P_02_jpg, P_18_19_jpg}]) @@
    (Vol2_cbz :> [valid |-> TRUE, members |-> {P_01_jpg, P_02_jpg}])

InputDirs == SeveralArchives \cup OneArchive \cup {ExampleDir}

-----------------------------------------------------------------------------
(* merge_cbz_files *)

\* no file lies at output_file when the merge starts
NoOutput == [exists |-> FALSE, open |-> FALSE, entries |-> <<>>]

Init ==
    /\ input \in InputDirs
    /\ is_pdf \in BOOLEAN
    /\ pc = "start"
    /\ tempExists = FALSE
    /\ dirs = EmptyDir
    /\ cbz_files = <<>>
    /\ cbz_iter = <<>>
    /\ subdirs = <<>>
    /\ subdirs_iter = <<>>
    /\ subdir = <<>>
    /\ image_files = <<>>
    /\ page_counter = 0
    /\ files_to_export = <<>>
    /\ zip_iter = <<>>
    /\ output = NoOutput
    /\ failure = "none"

\* an exception leaves merge_cbz_files: nothing after the raising line runs
Raise(exc) ==
    /\ pc' = "failed"
    /\ failure' = exc

\* Step 1: tempfile.mkdtemp() and os.makedirs(mergedir)
Mkdtemp ==
    /\ pc = "start"
    /\ tempExists' = TRUE
    /\ dirs' = MakeDirs(EmptyDir, MergeDirName)
    /\ pc' = "list"
    /\ UNCHANGED <<input, is_pdf, cbz_files, cbz_iter, subdirs, subdirs_iter, subdir,
                   image_files, page_counter, files_to_export, zip_iter, output, failure>>

\* Step 2: the sorted list of the .cbz files
ListCbzFiles ==
    /\ pc = "list"
    /\ cbz_files' = Sorted({f \in DOMAIN input : IsCbzFile(f)})
    /\ cbz_iter' = cbz_files'
    /\ subdirs' = <<>>
    /\ pc' = "unpack"
    /\ UNCHANGED <<input, is_pdf, tempExists, dirs, subdirs_iter, subdir, image_files,
                   page_counter, files_to_export, zip_iter, output, failure>>

\* Step 3, one iteration: unpack_cbz returns the subdirectory
UnpackCbz ==
    /\ pc = "unpack"
    /\ cbz_iter # <<>>
    /\ IsZipFile(Head(cbz_iter))
    /\ dirs' = ExtractAll(MakeDirs(dirs, SubdirName(Head(cbz_iter))), Head(cbz_iter))
    /\ subdirs' = Append(subdirs, SubdirName(Head(cbz_iter)))
    /\ cbz_iter' = Tail(cbz_iter)
    /\ UNCHANGED <<input, is_pdf, pc, tempExists, cbz_files, subdirs_iter, subdir,
                   image_files, page_counter, files_to_export, zip_iter, output, failure>>

\* Step 3, one iteration: zipfile.ZipFile raises BadZipFile after the
\* subdirectory was made
UnpackBadZip ==
    /\ pc = "unpack"
    /\ cbz_iter # <<>>
    /\ ~IsZipFile(Head(cbz_iter))
    /\ dirs' = MakeDirs(dirs, SubdirName(Head(cbz_iter)))
    /\ Raise("BadZipFile")
    /\ UNCHANGED <<input, is_pdf, tempExists, cbz_files, cbz_iter, subdirs, subdirs_iter,
                   subdir, image_files, page_counter, files_to_export, zip_iter, output>>

\* Step 4 begins: page_counter = 1, files_to_export = []
BeginRenumber ==
    /\ pc = "unpack"
    /\ cbz_iter = <<>>
    /\ page_counter' = 1
    /\ files_to_export' = <<>>
    /\ subdirs_iter' = subdirs
    /\ image_files' = <<>>
    /\ pc' = "renumber"
    /\ UNCHANGED <<input, is_pdf, tempExists, dirs, cbz_files, cbz_iter, subdirs, subdir,
                   zip_iter, output, failure>>

\* Step 4, outer loop: the next subdirectory and its sorted image files
NextSubdir ==
    /\ pc = "renumber"
    /\ image_files = <<>>
    /\ subdirs_iter # <<>>
    /\ subdir' = Head(subdirs_iter)
    /\ image_files' = ListImages(dirs, Head(subdirs_iter))
    /\ subdirs_iter' = Tail(subdirs_iter)
    /\ UNCHANGED <<input, is_pdf, pc, tempExists, dirs, cbz_files, cbz_iter, subdirs,
                   page_counter, files_to_export, zip_iter, output, failure>>

\* original_page
OriginalPage == <<subdir, Head(image_files)>>

\* new_page_path
NewPagePath ==
    LET filename == Head(image_files)
        ext == splitext(filename)[2]
    IN  IF is_double_page(filename)
        THEN <<MergeDirName, DoubleName(page_counter, ext)>>
        ELSE <<MergeDirName, SingleName(page_counter, ext)>>

\* Step 4, inner loop: a double-page image
CopyDouble ==
    /\ pc = "renumber"
    /\ image_files # <<>>
    /\ is_double_page(Head(image_files))
    /\ OriginalPage # NewPagePath
    /\ dirs' = CopyFile(dirs, OriginalPage, NewPagePath)
    /\ files_to_export' = Append(files_to_export, NewPagePath)
    /\ page_counter' = NextCounterDouble(page_counter)
    /\ image_files' = Tail(image_files)
    /\ UNCHANGED <<input, is_pdf, pc, tempExists, cbz_files, cbz_iter, subdirs,
                   subdirs_iter, subdir, zip_iter, output, failure>>

\* Step 4, inner loop: a single-page image
CopySingle ==
    /\ pc = "renumber"
    /\ image_files # <<>>
    /\ ~is_double_page(Head(image_files))
    /\ OriginalPage # NewPagePath
    /\ dirs' = CopyFile(dirs, OriginalPage, NewPagePath)
    /\ files_to_export' = Append(files_to_export, NewPagePath)
    /\ page_counter' = NextCounterSingle(page_counter)
    /\ image_files' = Tail(image_files)
    /\ UNCHANGED <<input, is_pdf, pc, tempExists, cbz_files, cbz_iter, subdirs,
                   subdirs_iter, subdir, zip_iter, output, failure>>

\* Step 4, inner loop: shutil.copy raises SameFileError when the page already
\* lies in mergedir under its new name
CopySameFile ==
    /\ pc = "renumber"
    /\ image_files # <<>>
    /\ OriginalPage = NewPagePath
    /\ Raise("SameFileError")
    /\ UNCHANGED <<input, is_pdf, tempExists, dirs, cbz_files, cbz_iter, subdirs,
                   subdirs_iter, subdir, image_files, page_counter, files_to_export,
                   zip_iter, output>>

\* the file read from tempdir, as an entry of the output
Entry(path) == [name |-> Basename(path), content |-> dirs[path[1]][path[2]]]

\* Step 5, is_pdf: export_to_pdf opens every file and saves the document
\* (images[0].save is one step: the document is written whole)
ExportPdf ==
    /\ pc = "renumber"
    /\ image_files = <<>>
    /\ subdirs_iter = <<>>
    /\ is_pdf
    /\ files_to_export # <<>>
    /\ output' = [exists |-> TRUE, open |-> FALSE,
                  entries |-> [i \in 1..Len(files_to_export) |-> Entry(files_to_export[i])]]
    /\ pc' = "cleanup"
    /\ UNCHANGED <<input, is_pdf, tempExists, dirs, cbz_files, cbz_iter, subdirs,
                   subdirs_iter, subdir, image_files, page_counter, files_to_export,
                   zip_iter, failure>>

\* Step 5, is_pdf: images[0] of an empty list raises IndexError
ExportPdfEmpty ==
    /\ pc = "renumber"
    /\ image_files = <<>>
    /\ subdirs_iter = <<>>
    /\ is_pdf
    /\ files_to_export = <<>>
    /\ Raise("IndexError")
    /\ UNCHANGED <<input, is_pdf, tempExists, dirs, cbz_files, cbz_iter, subdirs,
                   subdirs_iter, subdir, image_files, page_counter, files_to_export,
                   zip_iter, output>>

\* Step 5, not is_pdf: zipfile.ZipFile(output_file, 'w') creates the file
ZipOpen ==
    /\ pc = "renumber"
    /\ image_files = <<>>
    /\ subdirs_iter = <<>>
    /\ ~is_pdf
    /\ output' = [exists |-> TRUE, open |-> TRUE, entries |-> <<>>]
    /\ zip_iter' = files_to_export
    /\ pc' = "zip"
    /\ UNCHANGED <<input, is_pdf, tempExists, dirs, cbz_files, cbz_iter, subdirs,
                   subdirs_iter, subdir, image_files, page_counter, files_to_export,
                   failure>>

\* Step 5, not is_pdf: zip_out.write of the next file
ZipWrite ==
    /\ pc = "zip"
    /\ zip_iter # <<>>
    /\ output' = [output EXCEPT !.entries = Append(@, Entry(Head(zip_iter)))]
    /\ zip_iter' = Tail(zip_iter)
    /\ UNCHANGED <<input, is_pdf, pc, tempExists, dirs, cbz_files, cbz_iter, subdirs,
                   subdirs_iter, subdir, image_files, page_counter, files_to_export,
                   failure>>

\* Step 5, not is_pdf: zip_out.write raises OSError (the device is full, the
\* run is interrupted); the with statement closes the file and the exception
\* leaves merge_cbz_files
ZipWriteFails ==
    /\ pc = "zip"
    /\ zip_iter # <<>>
    /\ output' = [output EXCEPT !.open = FALSE]
    /\ Raise("OSError")
    /\ UNCHANGED <<input, is_pdf, tempExists, dirs, cbz_files, cbz_iter, subdirs,
                   subdirs_iter, subdir, image_files, page_counter, files_to_export,
                   zip_iter>>

\* Step 5, not is_pdf: the with statement closes the finished archive
ZipClose ==
    /\ pc = "zip"
    /\ zip_iter = <<>>
    /\ output' = [output EXCEPT !.open = FALSE]
    /\ pc' = "cleanup"
    /\ UNCHANGED <<input, is_pdf, tempExists, dirs, cbz_files, cbz_iter, subdirs,
                   subdirs_iter, subdir, image_files, page_counter, files_to_export,
                   zip_iter, failure>>

\* Step 6: shutil.rmtree(tempdir), then the final message
Rmtree ==
    /\ pc = "cleanup"
    /\ tempExists' = FALSE
    /\ dirs' = EmptyDir
    /\ pc' = "done"
    /\ UNCHANGED <<input, is_pdf, cbz_files, cbz_iter, subdirs, subdirs_iter, subdir,
                   image_files, page_counter, files_to_export, zip_iter, output, failure>>

Next ==
    \/ Mkdtemp
    \/ ListCbzFiles
    \/ UnpackCbz
    \/ UnpackBadZip
    \/ BeginRenumber
    \/ NextSubdir
    \/ CopyDouble
    \/ CopySingle
    \/ CopySameFile
    \/ ExportPdf
    \/ ExportPdfEmpty
    \/ ZipOpen
    \/ ZipWrite
    \/ ZipWriteFails
    \/ ZipClose
    \/ Rmtree

Spec == Init /\ [][Next]_vars

-----------------------------------------------------------------------------
(* What the properties speak about *)

AllDigits(s) == s # <<>> /\ \A i \in 1..Len(s) : IsDigit(s[i])

\* the number a string of decimal digits denotes
RECURSIVE ParseNat(_)
ParseNat(s) ==
    IF s = <<>> THEN 0
    ELSE 10 * ParseNat(SubSeq(s, 1, Len(s) - 1)) + (Ord[s[Len(s)]] - 48)

\* the part of a name before its last dot, and the part from that dot on
Stem(name) == SubSeq(name, 1, (CHOOSE i \in 1..Len(name) :
                  name[i] = "." /\ \A j \in (i + 1)..Len(name) : name[j] # ".") - 1)
Suffix(name) == SubSeq(name, Len(Stem(name)) + 1, Len(name))

Hyphens(s) == {i \in 1..Len(s) : s[i] = "-"}

\* the stem is one number
IsSingleShape(name) == AllDigits(Stem(name))

\* the stem is two numbers joined by one hyphen
IsPairShape(name) ==
    /\ Cardinality(Hyphens(Stem(name))) = 1
    /\ LET h == CHOOSE i \in Hyphens(Stem(name)) : TRUE
       IN  /\ AllDigits(SubSeq(Stem(name), 1, h - 1))
           /\ AllDigits(SubSeq(Stem(name), h + 1, Len(Stem(name))))

\* the page numbers <<lo, hi>> an output name consumes
Nums(name) ==
    IF IsPairShape(name)
    THEN LET h == CHOOSE i \in Hyphens(Stem(name)) : TRUE
         IN  <<ParseNat(SubSeq(Stem(name), 1, h - 1)),
               ParseNat(SubSeq(Stem(name), h + 1, Len(Stem(name))))>>
    ELSE <<ParseNat(Stem(name)), ParseNat(Stem(name))>>

\* the archives of the input directory, by file name
InputArchives == {f \in DOMAIN input : EndsWith(f, ExtCbz)}

\* the page entries of the input: <<archive, member>> for each image member
PageEntries ==
    {e \in InputArchives \X AllNames :
        /\ e[2] \in input[e[1]].members
        /\ \E x \in {ExtJpg, ExtJpeg, ExtPng, ExtGif} : EndsWith(LowerStr(e[2]), x)}

\* e comes before f: by archive name, then by original file name
EntryBefore(e, f) ==
    \/ LexLess(e[1], f[1])
    \/ e[1] = f[1] /\ LexLess(e[2], f[2])

OutNames == [i \in 1..Len(output.entries) |-> output.entries[i].name]
OutContents == [i \in 1..Len(output.entries) |-> output.entries[i].content]

NoCbz == InputArchives = {}

UnreadableInput == \E f \in InputArchives : ~input[f].valid

\* the renumbering loop is about to copy the page named Head(image_files),
\* and does
CopyStep == pc = "renumber" /\ image_files # <<>> /\ pc' = "renumber"

\* files_to_export grew by the path of one file of mergedir
OneMoreExport ==
    /\ Len(files_to_export') = Len(files_to_export) + 1
    /\ SubSeq(files_to_export', 1, Len(files_to_export)) = files_to_export
    /\ files_to_export'[Len(files_to_export')][1] = MergeDirName

NewName == files_to_export'[Len(files_to_export')][2]

\* the names the double-spread pattern rejects although two numbers are joined
\* by a hyphen: other extensions, upper case, one digit, five digits
HyphenNotDouble ==
    {P_18_19_jpeg, P_18_19_png, P_18_19_gif, P_18_19_JPG, P_1_2_jpg, P_12345_12_jpg}

-----------------------------------------------------------------------------
(* Properties *)

\* C1: when the merge completes, the output holds exactly one entry for every
\* page entry of the input archives: as many entries as pages, none dropped,
\* none twice.
C1_EveryPageOnce ==
    pc = "done" =>
        /\ Len(output.entries) = Cardinality(PageEntries)
        /\ {OutContents[i] : i \in 1..Len(OutContents)} = PageEntries

\* C2 as stated: vol1.cbz (01.jpg, 02.jpg, 18-19.jpg) and vol2.cbz (01.jpg,
\* 02.jpg) give 01.jpg, 02.jpg, 04-05.jpg, 06.jpg, 07.jpg.
C2_ExampleSkipsToSpread ==
    (input = ExampleDir /\ pc = "done") =>
        OutNames = << <<"0", "1">> \o ExtJpg, <<"0", "2">> \o ExtJpg,
                      <<"0", "4", "-", "0", "5">> \o ExtJpg,
                      <<"0", "6">> \o ExtJpg, <<"0", "7">> \o ExtJpg >>

\* C2 as amended: the same input gives 01.jpg, 02.jpg, 03-04.jpg, 05.jpg,
\* 06.jpg: the spread takes the next two numbers, nothing is skipped.
C2_ExampleNoSkip ==
    (input = ExampleDir /\ pc = "done") =>
        OutNames = << <<"0", "1">> \o ExtJpg, <<"0", "2">> \o ExtJpg,
                      <<"0", "3", "-", "0", "4">> \o ExtJpg,
                      <<"0", "5">> \o ExtJpg, <<"0", "6">> \o ExtJpg >>

C2_Witness == input = ExampleDir /\ pc = "done" /\ Len(output.entries) = 5

\* C3: when the pipeline has ended, in success or in failure, the working
\* storage is gone.
C3_WorkingStorageRemoved ==
    pc \in {"done", "failed"} => ~tempExists /\ dirs = EmptyDir

\* C4: with no .cbz file in the input directory the merge aborts with
\* EmptyInputSet: no working storage is ever created, no output file is
\* created, the merge does not complete.
C4_EmptyInputAborts ==
    NoCbz =>
        /\ ~tempExists
        /\ ~output.exists
        /\ pc # "done"
        /\ pc = "failed" => failure = "EmptyInputSet"

\* C5: the page counter starts at 1 and never decreases; the numbers of
\* successive output entries are strictly increasing, each entry's numbers lie
\* below the counter, and no number is used by two entries.
C5_CounterStrictlyIncreasing ==
    /\ [](LET n == [i \in 1..Len(files_to_export) |-> Nums(files_to_export[i][2])]
          IN  /\ pc = "renumber" /\ files_to_export = <<>> => page_counter = 1
              /\ files_to_export # <<>> => n[1][1] = 1
              /\ \A i \in 1..Len(n) : n[i][1] <= n[i][2] /\ n[i][2] < page_counter
              /\ \A i, j \in 1..Len(n) : i < j => n[i][2] < n[j][1])
    /\ [][page_counter' >= page_counter]_vars

C5_Witness ==
    /\ pc = "done"
    /\ \E i, j \in 1..Len(output.entries) :
        /\ i < j
        /\ IsPairShape(OutNames[i])
        /\ OutContents[i][1] # OutContents[j][1]

C8_UnreadableArchiveNoOutput ==
    UnreadableInput => ~output.exists /\ pc # "done"

C8_Witness ==
    /\ pc = "failed"
    /\ failure = "BadZipFile"
    /\ subdirs # <<>>
    /\ DOMAIN dirs[subdirs[1]] # {}

\* C7: the pages of the finished output are the page entries of the input in
\* order: by archive name, and within an archive by original file name.
C7_OutputInInputOrder ==
    (pc = "done") =>
        /\ {OutContents[i] : i \in 1..Len(OutContents)} = PageEntries
        /\ \A i, j \in 1..Len(OutContents) :
            i < j => EntryBefore(OutContents[i], OutContents[j])

\* C9: the file at the output path is absent or the complete artifact, in
\* every state.
C9_NoPartialOutput ==
    output.exists => ~output.open /\ Len(output.entries) = Len(files_to_export)

\* C10: a page whose name joins two numbers by a hyphen without matching the
\* double-spread pattern is staged under the two-digit counter followed by its
\* own extension, and the counter advances by 1.
C10_HyphenNotDoubleStep ==
    [][(CopyStep /\ Head(image_files) \in HyphenNotDouble) =>
        /\ OneMoreExport
        /\ IsSingleShape(NewName)
        /\ Len(Stem(NewName)) = 2
        /\ Nums(NewName) = <<page_counter, page_counter>>
        /\ Suffix(NewName) = Suffix(Head(image_files))
        /\ dirs'[MergeDirName][NewName] = dirs[subdir][Head(image_files)]
        /\ page_counter' = page_counter + 1]_vars

C10_Witness ==
    /\ pc = "done"
    /\ \E i, j \in 1..Len(output.entries) :
        /\ OutContents[i][2] = P_12345_12_jpg
        /\ OutContents[j][2] = P_18_19_JPG
        /\ IsSingleShape(OutNames[i])
        /\ IsSingleShape(OutNames[j])

=============================================================================
